---- MODULE Spec2Model ----
(***************************************************************************)
(* Model of src/wgan.py: the WGAN controller (construction, the training   *)
(* loop, checkpointing, load) and the batch sampler get_data_batch.        *)
(*                                                                         *)
(* Numbers.  Weights are fixed-point, one unit = 0.01, so the critic's     *)
(* clip value 0.01 is 1.  Row labels of a dataset of n rows are 1..n (the  *)
(* position of the row in train.index, counted from 1); Python's 0-based   *)
(* slice [a:b] of a list l is SubSeq(l, a+1, Min(b, Len(l))).              *)
(***************************************************************************)
EXTENDS Integers, Sequences, FiniteSets, TLC

VARIABLES
    rng,         \* state of numpy's process-wide random generator
    ds_len,      \* len(train): the number of rows of the dataset
    data_dim,    \* the number of columns of the dataset
    batch_size,  \* the batch size (self.batch_size of the controller)
    ret,         \* the latest get_data_batch call: arguments, generator state before, outcome
    probe,       \* the first get_data_batch call of the run, kept for comparison
    between,     \* a call with another seed happened after the probe call
    batches      \* per seed: whether it was called, and what the call selected

VARIABLES
    n_critic,        \* self.n_critic
    compiled,        \* per compiled model: the networks its training step updates
    generator,       \* what self.generator refers to: "model", "shell", "None" or "status"
    gen_w,           \* weights of the generator network built by define_gan
    critic_w,        \* weights of the critic network
    w0,              \* the value the kernel initializer gave the kernels
    pc,              \* position of train: "idle", a phase, "done" or "error"
    epochs,          \* train_arguments[1]
    sample_interval, \* train_arguments[2]
    cache_prefix,    \* train_arguments[0]
    epoch,           \* the loop variable of train
    critic_i,        \* critic iterations finished in the current epoch (the loop's _)
    critic_updates,  \* number of critic.train_on_batch calls finished
    fed,             \* the label sequences of the real batches fed to the critic
    log,             \* the phases finished so far, each with its epoch
    cache_dir,       \* whether ./cache exists
    files,           \* the names of the checkpoint files written
    call             \* the latest call on the controller and its outcome

samplerVars == <<ret, probe, between, batches>>
dataVars    == <<rng, ds_len, data_dim, batch_size>>
ctrlVars    == <<n_critic, compiled, generator, gen_w, critic_w, w0>>
trainVars   == <<pc, epochs, sample_interval, cache_prefix, epoch, critic_i,
                 critic_updates, fed, log>>
fsVars      == <<cache_dir, files>>
vars == <<samplerVars, dataVars, ctrlVars, trainVars, fsVars, call>>

\* ------------------------------------------------------------------ bounds
MaxRows  == 3      \* len(train) ranges over 0..MaxRows
MaxBatch == 4      \* batch_size ranges over 1..MaxBatch
MaxDim   == 2      \* data_dim ranges over 1..MaxDim
MaxSeed  == 2      \* the seed argument ranges over 0..MaxSeed
MaxNCritic  == 2   \* n_critic ranges over 0..MaxNCritic
MaxEpochs   == 2   \* epochs ranges over 0..MaxEpochs
MaxInterval == 2   \* sample_interval ranges over 0..MaxInterval
MaxInit     == 2   \* the initializer gives kernels the value -MaxInit or MaxInit
MaxGrad     == 1   \* one optimizer step moves a weight by -MaxGrad..MaxGrad
MaxWeight   == 3   \* steps that take a weight out of -MaxWeight..MaxWeight are not modelled
TrainRows   == 2   \* train is given a dataset of 0..TrainRows rows
TrainBatch  == 2   \* the controller's batch_size ranges over 1..TrainBatch

Min(a, b) == IF a < b THEN a ELSE b

Range(f) == {f[i] : i \in DOMAIN f}

\* ------------------------------------------------- numpy's global generator
\* The process-wide numpy generator is a state in 0..RngMod-1.
RngMod == 8

\* Mutant of NpRandomSeed: the re-seed is left out (the generator keeps
\* whatever state the process left it in).
NpRandomSeed_NoReseed(state, s) == state

\* np.random.seed(s): the state becomes a function of s alone.
NpRandomSeed(state, s) == s % RngMod

\* One draw of the generator (a full-period congruential step).
RngNext(state) == (5 * state + 3) % RngMod

Swap(l, i, j) == [l EXCEPT ![i] = l[j], ![j] = l[i]]

\* np.random.choice(l, replace=False, size=len(l)): a permutation of l that
\* is a function of the generator's state; returns it with the new state.
RECURSIVE Shuffle(_, _, _)
Shuffle(l, i, state) ==
    IF i < 2 THEN [perm |-> l, state |-> state]
    ELSE LET s2 == RngNext(state)
             j  == (s2 % i) + 1
         IN  Shuffle(Swap(l, i, j), i - 1, s2)

NpRandomChoice(l, state) == Shuffle(l, Len(l), state)

\* ------------------------------------------------------------ the dataset
\* list(train.index) of a dataset of n rows
Index(n) == [i \in 1..n |-> i]

\* the cell of row `label`, column j: distinct rows hold distinct values
Cell(label, j) == 10 * label + j

\* train.loc[ix].values flattened in row-major order (what reshape reads)
Flat(ix, dim) ==
    [k \in 1..(Len(ix) * dim) |-> Cell(ix[((k - 1) \div dim) + 1], ((k - 1) % dim) + 1)]

\* np.reshape(x, (rows, -1)): fails unless the element count is a positive
\* multiple of rows, else cuts the flat data into `rows` rows.
CanReshape(flat, rows) == Len(flat) > 0 /\ Len(flat) % rows = 0

Reshape(flat, rows) ==
    LET cols == Len(flat) \div rows
    IN  [r \in 1..rows |-> [c \in 1..cols |-> flat[(r - 1) * cols + c]]]

NoMatrix == << >>

\* get_data_batch(train, batch_size, seed) called with the global generator
\* in state `state`, on a dataset of n rows and dim columns; bs is the
\* batch_size argument.
\*   status: "ok" or the exception raised;  ix: the labels selected
\*   x: the matrix returned;  rng: the generator's state afterwards
get_data_batch(state, n, dim, bs, seed) ==
    IF n = 0
    THEN [status |-> "ZeroDivisionError", ix |-> << >>, x |-> NoMatrix, rng |-> state]
    ELSE LET start_i      == (bs * seed) % n
             stop_i       == start_i + bs
             shuffle_seed == (bs * seed) \div n
             seeded       == NpRandomSeed(state, shuffle_seed)
             drawn        == NpRandomChoice(Index(n), seeded)
             train_ix     == drawn.perm \o drawn.perm
             ix           == SubSeq(train_ix, start_i + 1, Min(stop_i, Len(train_ix)))
             flat         == Flat(ix, dim)
         IN  IF CanReshape(flat, bs)
             THEN [status |-> "ok", ix |-> ix, x |-> Reshape(flat, bs),
                   rng |-> drawn.state]
             ELSE [status |-> "ValueError", ix |-> ix, x |-> NoMatrix,
                   rng |-> drawn.state]

\* ------------------------------------------------- the sampler on its own
NoCall == [called |-> FALSE, seed |-> 0, pre |-> 0, status |-> "none",
           ix |-> << >>, x |-> NoMatrix]

NotCalled == [called |-> FALSE, status |-> "none", ix |-> << >>]

IdleController ==
    /\ n_critic = 0 /\ compiled = << >> /\ generator = "none"
    /\ gen_w = << >> /\ critic_w = << >> /\ w0 = 0
    /\ pc = "idle" /\ epochs = 0 /\ sample_interval = 0 /\ cache_prefix = ""
    /\ epoch = 0 /\ critic_i = 0 /\ critic_updates = 0 /\ fed = {} /\ log = << >>
    /\ cache_dir = FALSE /\ files = {}
    /\ call = [op |-> "none", path |-> "", result |-> "none"]

\* the sampler called directly, with no controller constructed
SamplerInit ==
    /\ IdleController
    /\ rng \in 0..(RngMod - 1)
    /\ ds_len \in 0..MaxRows
    /\ data_dim \in 1..MaxDim
    /\ batch_size \in 1..MaxBatch
    /\ ret = NoCall
    /\ probe = NoCall
    /\ between = FALSE
    /\ batches = [s \in 0..MaxSeed |-> NotCalled]

\* one call get_data_batch(train, batch_size, seed) from outside the controller
Sample(seed) ==
    LET r    == get_data_batch(rng, ds_len, data_dim, batch_size, seed)
        this == [called |-> TRUE, seed |-> seed, pre |-> rng, status |-> r.status,
                 ix |-> r.ix, x |-> r.x]
    IN  /\ rng' = r.rng
        /\ ret' = this
        /\ probe' = IF probe.called THEN probe ELSE this
        /\ between' = (between \/ (probe.called /\ seed # probe.seed))
        /\ batches' = [batches EXCEPT ![seed] =
                          [called |-> TRUE, status |-> r.status, ix |-> r.ix]]
        /\ UNCHANGED <<ds_len, data_dim, batch_size, ctrlVars, trainVars, fsVars, call>>

SamplerNext == \E seed \in 0..MaxSeed : Sample(seed)

SamplerSpec == SamplerInit /\ [][SamplerNext]_vars

\* --------------------------------------------------------------- networks
\* Both networks are four Dense layers, each with a kernel and a bias.
Tensors == (1..4) \X {"kernel", "bias"}

\* Dense's default initializers: the kernel initializer's value, zero biases.
InitialWeights(init) == [t \in Tensors |-> IF t[2] = "kernel" THEN init ELSE 0]

\* Generator.build_model: no constraint on any tensor.
GeneratorConstraints == {}

\* Critic.build_model: const = ClipConstraint(0.01), in units of 0.01
ClipValue == 1

\* Critic.build_model: kernel_constraint = const on the three hidden layers;
\* Dense(1) and the biases carry no constraint.
CriticConstraints == {<<l, "kernel">> : l \in 1..3}

\* ClipConstraint.__call__: backend.clip(weights, -clip_value, clip_value)
\* (Constraint and backend are taken to be keras's, which the file does not
\* import.)
Clip(w, c) == IF w < -c THEN -c ELSE IF w > c THEN c ELSE w

\* One optimizer step on a network: every tensor moves by the step d, then
\* each constrained tensor is passed through its constraint.
ApplyUpdate(w, d, constraints) ==
    [t \in DOMAIN w |->
        IF t \in constraints THEN Clip(w[t] + d, ClipValue) ELSE w[t] + d]

\* Mutant of define_gan: self.critic.trainable = False is left out, so the
\* combined model is compiled with the critic trainable.
define_gan_NoFreeze ==
    [critic |-> {"critic"}, gan |-> {"generator", "critic"}]

\* define_gan: which networks each compiled model's training step updates.
\* compile() fixes the trainable flags as they are when it is called: the
\* critic is compiled while trainable, then frozen, then the combined
\* generator->critic model is compiled.
define_gan ==
    LET built        == {"generator", "critic"}
        critic_model == {"critic"} \cap built
        frozen       == built \ {"critic"}
        gan_model    == {"generator", "critic"} \cap frozen
    IN  [critic |-> critic_model, gan |-> gan_model]

InRange(w) == \A t \in DOMAIN w : w[t] \in (-MaxWeight)..MaxWeight

\* model.train_on_batch(...): one optimizer step, of size d, on the networks
\* the compiled model updates.
train_on_batch(model, d) ==
    /\ gen_w' = IF "generator" \in compiled[model]
                THEN ApplyUpdate(gen_w, d, GeneratorConstraints) ELSE gen_w
    /\ critic_w' = IF "critic" \in compiled[model]
                   THEN ApplyUpdate(critic_w, d, CriticConstraints) ELSE critic_w
    /\ InRange(gen_w') /\ InRange(critic_w')

\* ------------------------------------------------------------- controller
\* WGAN(model_parameters, n_critic) constructed, train not yet called.
Init ==
    /\ rng \in 0..(RngMod - 1)
    /\ ds_len \in 0..TrainRows
    /\ data_dim = MaxDim
    /\ batch_size \in 1..TrainBatch
    /\ ret = NoCall /\ probe = NoCall /\ between = FALSE
    /\ batches = [s \in 0..MaxSeed |-> NotCalled]
    /\ n_critic \in 0..MaxNCritic
    /\ w0 \in {-MaxInit, MaxInit}
    /\ compiled = define_gan
    /\ generator = "model"
    /\ gen_w = InitialWeights(w0)
    /\ critic_w = InitialWeights(w0)
    /\ pc = "idle" /\ epochs = 0 /\ sample_interval = 0 /\ cache_prefix = ""
    /\ epoch = 0 /\ critic_i = 0 /\ critic_updates = 0 /\ fed = {} /\ log = << >>
    /\ cache_dir = FALSE /\ files = {}
    /\ call = [op |-> "none", path |-> "", result |-> "none"]

Prefixes == {"wgan"}

\* an exception leaves train (or load); nothing catches it
Raise(exc) ==
    /\ pc' = "error"
    /\ call' = [call EXCEPT !.result = exc]

Phase(name) == [phase |-> name, epoch |-> epoch]

\* the head of `for epoch in range(epochs)` followed by the head of
\* `for _ in range(self.n_critic)`
EpochHead(e) ==
    IF e >= epochs' THEN "done"
    ELSE IF n_critic = 0 THEN "generator" ELSE "critic_real"

\* train(data, [cache_prefix, epochs, sample_interval]) is called
Train(p, e, si) ==
    /\ pc = "idle"
    /\ cache_prefix' = p /\ epochs' = e /\ sample_interval' = si
    /\ epoch' = 0 /\ critic_i' = 0
    /\ pc' = EpochHead(0)
    /\ call' = [op |-> "train", path |-> "",
                result |-> IF e = 0 THEN "returned" ELSE "running"]
    /\ UNCHANGED <<samplerVars, dataVars, ctrlVars, critic_updates, fed, log, fsVars>>

\* Mutant of TrainSeed: train passes its running step count as the seed.
TrainSeed_Step(e, i) == e * n_critic + i

\* the seed train passes to get_data_batch: none, so the default seed=0
TrainSeed(e, i) == 0

\* first half of a critic iteration: the real batch, the noise, the fake
\* batch, and critic.train_on_batch(batch_data, valid)
CriticReal(d) ==
    /\ pc = "critic_real"
    /\ LET b == get_data_batch(rng, ds_len, data_dim, batch_size, TrainSeed(epoch, critic_i))
       IN  /\ rng' = b.rng
           /\ IF b.status # "ok"
              THEN Raise(b.status) /\ UNCHANGED <<gen_w, critic_w, critic_updates, fed>>
              ELSE IF generator # "model"
              THEN Raise("TypeError") /\ UNCHANGED <<gen_w, critic_w, critic_updates, fed>>
              ELSE IF Len(b.x[1]) # data_dim
              THEN Raise("ValueError") /\ UNCHANGED <<gen_w, critic_w, critic_updates, fed>>
              ELSE /\ train_on_batch("critic", d)
                   /\ critic_updates' = critic_updates + 1
                   /\ fed' = fed \cup {b.ix}
                   /\ pc' = "critic_fake"
                   /\ UNCHANGED call
    /\ UNCHANGED <<samplerVars, ds_len, data_dim, batch_size, n_critic, compiled,
                   generator, w0, epochs, sample_interval, cache_prefix, epoch,
                   critic_i, log, fsVars>>

\* Mutant of CriticLoopDone: the critic loop stops one iteration early.
CriticLoopDone_OneShort(i) == i + 1 >= n_critic

\* the test of `for _ in range(self.n_critic)` after i iterations
CriticLoopDone(i) == i >= n_critic

\* second half of a critic iteration: critic.train_on_batch(gen_data, fake)
CriticFake(d) ==
    /\ pc = "critic_fake"
    /\ train_on_batch("critic", d)
    /\ critic_updates' = critic_updates + 1
    /\ critic_i' = critic_i + 1
    /\ log' = Append(log, Phase("critic"))
    /\ pc' = IF CriticLoopDone(critic_i + 1) THEN "generator" ELSE "critic_real"
    /\ UNCHANGED <<samplerVars, dataVars, n_critic, compiled, generator, w0, epochs,
                   sample_interval, cache_prefix, epoch, fed, fsVars, call>>

\* the generator step: self._model.train_on_batch(noise, valid)
GeneratorPhase(d) ==
    /\ pc = "generator"
    /\ train_on_batch("gan", d)
    /\ log' = Append(log, Phase("generator"))
    /\ pc' = "end_epoch"
    /\ UNCHANGED <<samplerVars, dataVars, n_critic, compiled, generator, w0, epochs,
                   sample_interval, cache_prefix, epoch, critic_i, critic_updates,
                   fed, fsVars, call>>

\* Mutant of IsSaveEpoch: the interval is counted from epoch 1.
IsSaveEpoch_FromOne(e, si) == (e + 1) % si = 0

\* `epoch % sample_interval == 0`
IsSaveEpoch(e, si) == e % si = 0

\* './cache/' + cache_prefix + '_{}_model_weights_step_{}.h5'
Checkpoint(role) == [prefix |-> cache_prefix, role |-> role, step |-> epoch]

\* the end of an epoch: the progress line, then the checkpoint if due, then
\* the loop heads.  The progress line reads d_loss, which no statement has
\* bound when the critic loop ran zero times.
EndEpoch ==
    /\ pc = "end_epoch"
    /\ IF n_critic = 0
       THEN Raise("NameError") /\ UNCHANGED <<epoch, critic_i, log, fsVars>>
       ELSE IF sample_interval = 0
       THEN Raise("ZeroDivisionError") /\ UNCHANGED <<epoch, critic_i, log, fsVars>>
       ELSE /\ IF IsSaveEpoch(epoch, sample_interval)
               THEN /\ cache_dir' = TRUE
                    /\ files' = files \cup {Checkpoint("generator"), Checkpoint("critic")}
                    /\ log' = Append(log, Phase("checkpoint"))
               ELSE UNCHANGED <<cache_dir, files, log>>
            /\ epoch' = epoch + 1
            /\ critic_i' = 0
            /\ pc' = IF epoch + 1 >= epochs THEN "done" ELSE "critic_real"
            /\ call' = IF epoch + 1 >= epochs
                       THEN [call EXCEPT !.result = "returned"] ELSE call
    /\ UNCHANGED <<samplerVars, dataVars, ctrlVars, epochs, sample_interval,
                   cache_prefix, critic_updates, fed>>

\* the paths load is called with: the checkpoint directory, and a path that
\* names nothing
Paths == {"./cache", "./missing"}

\* os.path.isdir(path)
IsDir(path) == path = "./cache" /\ cache_dir

\* What Model.load_weights does on the shell for a directory path: it raises,
\* or it returns None (HDF5 format) or a load-status object (TensorFlow
\* format).  It never returns the model.
LoadWeightsOutcomes == {"raises", "None", "status"}

\* Mutant of load: the shell is assigned before the path is checked.
load_AssignFirst(gen, isdir, lw) ==
    IF ~isdir THEN [generator |-> "shell", result |-> "AssertionError"]
    ELSE IF lw = "raises" THEN [generator |-> "shell", result |-> "OSError"]
    ELSE [generator |-> lw, result |-> lw]

\* load(path): the assert, then self.generator = Generator(self.batch_size)
\* (a shell: build_model is not called), then self.generator =
\* self.generator.load_weights(path), then return self.generator.
load(gen, isdir, lw) ==
    IF ~isdir THEN [generator |-> gen, result |-> "AssertionError"]
    ELSE IF lw = "raises" THEN [generator |-> "shell", result |-> "OSError"]
    ELSE [generator |-> lw, result |-> lw]

\* load(path) is called while train is not running
Load(path, lw) ==
    /\ pc \in {"idle", "done", "error"}
    /\ LET r == load(generator, IsDir(path), lw)
       IN  /\ generator' = r.generator
           /\ call' = [op |-> "load", path |-> path, result |-> r.result]
    /\ UNCHANGED <<samplerVars, dataVars, n_critic, compiled, gen_w, critic_w, w0,
                   trainVars, fsVars>>

Steps == (-MaxGrad)..MaxGrad

Next ==
    \/ \E p \in Prefixes, e \in 0..MaxEpochs, si \in 0..MaxInterval : Train(p, e, si)
    \/ \E d \in Steps : CriticReal(d)
    \/ \E d \in Steps : CriticFake(d)
    \/ \E d \in Steps : GeneratorPhase(d)
    \/ EndEpoch
    \/ \E path \in Paths, lw \in LoadWeightsOutcomes : Load(path, lw)

Spec == Init /\ [][Next]_vars


\* ceil(len(dataset) / batch_size)
EpochSteps == (ds_len + batch_size - 1) \div batch_size

\* C2: whenever get_data_batch has been called on a non-empty dataset, it
\* selected exactly batch_size row labels and returned a matrix of exactly
\* batch_size rows of data_dim columns (no exception, no short slice).
C2_BatchShape ==
    (ret.called /\ ds_len >= 1) =>
        /\ ret.status = "ok"
        /\ Len(ret.ix) = batch_size
        /\ Len(ret.x) = batch_size
        /\ \A r \in 1..Len(ret.x) : Len(ret.x[r]) = data_dim

\* C3: once get_data_batch has been called for every seed of one epoch,
\* 0 .. ceil(len(dataset)/batch_size)-1, the labels of the batches these
\* calls returned contain every row label of the dataset.
C3_EpochCoverage ==
    (\A s \in 0..(EpochSteps - 1) : s <= MaxSeed /\ batches[s].called) =>
        \A label \in 1..ds_len :
            \E s \in 0..(EpochSteps - 1) :
                batches[s].status = "ok" /\ label \in Range(batches[s].ix)

\* C8: a call of get_data_batch with the arguments of the run's first call
\* has the first call's outcome and returns the first call's matrix,
\* whatever the state of the global generator before either call.
C8_Deterministic ==
    (probe.called /\ ret.called /\ ret.seed = probe.seed) =>
        (ret.status = probe.status /\ ret.ix = probe.ix /\ ret.x = probe.x)

\* C8 witness: the probe's arguments were used again, successfully, after a
\* call with another seed, and the generator's state before the two calls
\* differed; the dataset is large enough to have more than one permutation.
C8_Witness ==
    /\ probe.called /\ ret.called /\ ret.seed = probe.seed
    /\ between /\ ret.pre # probe.pre
    /\ ret.status = "ok" /\ ds_len >= 3 /\ ret.x = probe.x

\* ------------------------------------------------ claims on the controller
\* C1: after any critic.train_on_batch call, every element of every weight
\* tensor of the critic (final projection and biases included) lies within
\* [-clip_value, clip_value].
C1_AllCriticWeightsClipped ==
    critic_updates > 0 =>
        \A t \in Tensors : critic_w[t] \in (-ClipValue)..ClipValue

\* the phases logged for epoch e, in order
EpochPhases(e) ==
    LET InEpoch(x) == x.epoch = e
        sel == SelectSeq(log, InEpoch)
    IN  [i \in 1..Len(sel) |-> sel[i].phase]

\* C4: a run of train that returned has logged, for each epoch 0..epochs-1
\* in turn, exactly n_critic critic phases, then one generator phase, then
\* at most one checkpoint phase, nothing else, and has counted exactly
\* `epochs` epochs.
C4_Schedule ==
    pc = "done" =>
        /\ epoch = epochs
        /\ \A i \in DOMAIN log : log[i].epoch \in 0..(epochs - 1)
        /\ \A i, j \in DOMAIN log : i < j => log[i].epoch <= log[j].epoch
        /\ \A e \in 0..(epochs - 1) :
              LET ph == EpochPhases(e)
              IN  /\ Len(ph) \in {n_critic + 1, n_critic + 2}
                  /\ \A i \in 1..n_critic : ph[i] = "critic"
                  /\ ph[n_critic + 1] = "generator"
                  /\ Len(ph) = n_critic + 2 => ph[n_critic + 2] = "checkpoint"

\* C4 witness: a run of two epochs of two critic iterations returned, one
\* epoch with a checkpoint and one without.
C4_Witness ==
    /\ pc = "done" /\ epochs = 2 /\ n_critic = 2 /\ sample_interval = 2
    /\ Len(log) = 7

Written(role, e) == [prefix |-> cache_prefix, role |-> role, step |-> e] \in files

\* C5: at every point of a run, the generator file and the critic file
\* tagged (cache_prefix, e) exist exactly for the finished epochs e with
\* e mod sample_interval = 0, and no other file has been written.
C5_Checkpoints ==
    /\ \A e \in 0..epochs : \A role \in {"generator", "critic"} :
          Written(role, e) <=>
              (e < epoch /\ sample_interval > 0 /\ e % sample_interval = 0)
    /\ \A f \in files :
          /\ f.prefix = cache_prefix
          /\ f.role \in {"generator", "critic"}
          /\ f.step \in 0..(epoch - 1)

\* C5 witness: two epochs with sample_interval 2 returned: the pair of epoch
\* 0 is there, that of epoch 1 is not.
C5_Witness ==
    /\ pc = "done" /\ epochs = 2 /\ sample_interval = 2
    /\ Written("generator", 0) /\ Written("critic", 0)
    /\ ~Written("generator", 1) /\ ~Written("critic", 1)
    /\ Cardinality(files) = 2

\* C6: after load(path) on the existing directory that holds saved generator
\* weights, the value returned, and self.generator, is a generator model
\* (the one that is to carry the saved weights).
C6_LoadReturnsGenerator ==
    (/\ call.op = "load" /\ call.path = "./cache" /\ cache_dir
     /\ \E f \in files : f.role = "generator") =>
        (call.result = "model" /\ generator = "model")

\* C7: a load(path) step with a path that is not an existing directory ends
\* in the assertion's error and changes no field of the controller, nor the
\* dataset, the run's record or the files.
C7_LoadRejects ==
    [][(call'.op = "load" /\ ~IsDir(call'.path)) =>
          (/\ call'.result = "AssertionError"
           /\ UNCHANGED <<ctrlVars, trainVars, fsVars, dataVars>>)]_vars

\* C7 witness: after a finished run, load was refused and self.generator is
\* still the generator model.
C7_Witness ==
    /\ call.op = "load" /\ call.result = "AssertionError"
    /\ ~IsDir(call.path) /\ generator = "model" /\ pc = "done"

\* C9: a step of a critic phase leaves every generator weight unchanged, and
\* the generator step leaves every critic weight unchanged.
C9_WeightOwnership ==
    [][/\ pc \in {"critic_real", "critic_fake"} => gen_w' = gen_w
       /\ pc = "generator" => critic_w' = critic_w]_vars

\* C9 witness: a run returned in which the critic's own steps moved the
\* critic's weights (after the freeze of define_gan) and the generator
\* steps moved the generator's.
C9_Witness ==
    /\ pc = "done" /\ epochs = 2
    /\ critic_w # InitialWeights(w0) /\ gen_w # InitialWeights(w0)

\* the first batch_size labels of the permutation drawn with seed 0
\* (repeated once when batch_size exceeds the dataset)
FirstBatch ==
    LET perm == NpRandomChoice(Index(ds_len), 0).perm
        dup  == perm \o perm
    IN  SubSeq(dup, 1, Min(batch_size, Len(dup)))

\* C10: every real batch fed to the critic in a run is the one batch that
\* seed 0 selects, so no row outside it is ever used.
C10_SameBatch ==
    /\ fed \subseteq {FirstBatch}
    /\ \A ix \in fed : Range(ix) \subseteq Range(FirstBatch)

\* C10 witness: critic iterations of two epochs were fed, and the dataset
\* has a row the batch leaves out.
C10_Witness ==
    /\ epoch >= 1 /\ critic_updates >= 4 /\ fed # {}
    /\ \E label \in 1..ds_len : label \notin Range(FirstBatch)

====
